---- MODULE Spec2Model ----
(***************************************************************************)
(* Quota-gated batch analysis pipeline of the GeoPulse API:                *)
(*   - the usage ledger  (app/models/user_api_usage.py,                    *)
(*                        app/services/api_usage_service.py)               *)
(*   - the batch run     (RealSentinelHubProcessor.process_file and the    *)
(*                        steps it calls)                                  *)
(*   - provisioning      (registration, create_api_usage_for_user and the  *)
(*                        setup script setup_api_usage.py)                 *)
(*   - the upload service (UploadService.upload_and_process_file)          *)
(* One ledger row (one account) is shared by the batch runs in Runs; each  *)
(* run has its own database session.  Time is a discrete clock `now`; the  *)
(* local wall clock the file names are stamped with is `clock`.            *)
(* Spec and SpecConc run batches, SpecLive runs one batch fairly against a *)
(* service that may not answer, SpecLedger calls the ledger's methods one  *)
(* after the other, SpecProvision creates accounts and their ledger rows,  *)
(* SpecNames runs two batches while the wall clock advances, SpecUpload    *)
(* handles two upload requests, SpecClassify and SpecStyle apply the       *)
(* change classifier and the styling rules to one input.                   *)
(***************************************************************************)
EXTENDS Integers, Sequences, FiniteSets, TLC

\* ------------------------------------------------------------------ bounds
MaxProps == 2       \* largest number of rows of an uploaded table
MaxAllowed == 4     \* largest allowed_api_calls of a ledger
MaxTime == 2        \* last instant of the clock
ExpiryAt == 1       \* user_expiry_date of the ledger (now > ExpiryAt: expired)

Runs == {1, 2}

\* ------------------------------------------------------- program constants
ValidityDays == 30     \* create_for_user: expiry_date = created_date + 30 days
DefaultAllowed == 50   \* allowed_calls of create_for_user and of the setup script

\* ------------------------------------------------------- values of the data
NoRecord == [exists |-> FALSE, allowed_api_calls |-> 0,
             performed_api_calls |-> 0, user_created_date |-> 0,
             user_expiry_date |-> 0]

Zeros == [ndvi |-> 0, ndbi |-> 0, ndwi |-> 0]

\* rasters the imagery service may return, reduced to their band means
Rasters == { Zeros,
             [ndvi |-> 3, ndbi |-> 0, ndwi |-> 0],
             [ndvi |-> 0, ndbi |-> 0, ndwi |-> 1] }

\* what request.get_data() does in one invocation of the property analyzer:
\*   it returns a raster, returns nothing, or raises (msg: str(e), which is
\*   empty for an exception built without arguments)
Responses == [kind : {"raster"}, data : Rasters, msg : {""}]
               \cup { [kind |-> "empty", data |-> Zeros, msg |-> ""],
                      [kind |-> "exception", data |-> Zeros, msg |-> "request failed"],
                      [kind |-> "exception", data |-> Zeros, msg |-> ""] }

\* responses used when two runs are interleaved
FewResponses == { [kind |-> "raster", data |-> [ndvi |-> 3, ndbi |-> 0, ndwi |-> 0],
                   msg |-> ""],
                  [kind |-> "empty", data |-> Zeros, msg |-> ""] }

\* the imagery service does not answer: request.get_data() is called without
\* a timeout and the analyzer does not return
NoAnswer == [kind |-> "hang", data |-> Zeros, msg |-> ""]

\* a cell of LATITUDE / LONGITUDE / extent_ac is a number or a text
CellKinds == {"num", "text"}

NoFile == << [id |-> 0] >>

\* --------------------------------------------------------- UserAPIUsage model
can_make_api_calls_noexpiry(l, t, required_calls) ==
    IF l.allowed_api_calls - l.performed_api_calls < required_calls
    THEN [ok |-> FALSE, msg |-> "API call limit exceeded"]
    ELSE [ok |-> TRUE, msg |-> ""]

can_make_api_calls_strict(l, t, required_calls) ==
    IF t > l.user_expiry_date
    THEN [ok |-> FALSE, msg |-> "User account expired"]
    ELSE IF l.allowed_api_calls - l.performed_api_calls <= required_calls
         THEN [ok |-> FALSE, msg |-> "API call limit exceeded"]
         ELSE [ok |-> TRUE, msg |-> ""]

can_make_api_calls(l, t, required_calls) ==
    IF t > l.user_expiry_date
    THEN [ok |-> FALSE, msg |-> "User account expired"]
    ELSE IF l.allowed_api_calls - l.performed_api_calls < required_calls
         THEN [ok |-> FALSE, msg |-> "API call limit exceeded"]
         ELSE [ok |-> TRUE, msg |-> ""]

increment_api_calls(l, successful_calls) ==
    [l EXCEPT !.performed_api_calls = @ + successful_calls]

\* get_usage_summary divides by allowed_api_calls: it raises when that is 0
summary_raises(l) == l.allowed_api_calls = 0

Max(a, b) == IF a > b THEN a ELSE b

get_usage_summary(l, t) ==
    [allowed_calls     |-> l.allowed_api_calls,
     performed_calls   |-> l.performed_api_calls,
     remaining_calls   |-> Max(0, l.allowed_api_calls - l.performed_api_calls),
     days_until_expiry |-> Max(0, l.user_expiry_date - t),
     is_expired        |-> t > l.user_expiry_date]

\* create_for_user, called at instant t
create_for_user(allowed_calls, t) ==
    [exists |-> TRUE, allowed_api_calls |-> allowed_calls,
     performed_api_calls |-> 0, user_created_date |-> t,
     user_expiry_date |-> t + ValidityDays]

extend_expiry_from_old(l, t, days) ==
    [l EXCEPT !.user_expiry_date = @ + days]

\* extend_expiry, called at instant t
extend_expiry(l, t, days) ==
    IF t > l.user_expiry_date
    THEN [l EXCEPT !.user_expiry_date = t + days]
    ELSE [l EXCEPT !.user_expiry_date = @ + days]

\* the optional new_limit of reset_api_calls
None == [given |-> FALSE, value |-> 0]

Limit(n) == [given |-> TRUE, value |-> n]

reset_api_calls_if_truthy(l, new_limit) ==
    [l EXCEPT !.performed_api_calls = 0,
              !.allowed_api_calls = IF new_limit.given /\ new_limit.value # 0
                                    THEN new_limit.value ELSE @]

\* reset_api_calls: `if new_limit is not None`
reset_api_calls(l, new_limit) ==
    [l EXCEPT !.performed_api_calls = 0,
              !.allowed_api_calls = IF new_limit.given THEN new_limit.value ELSE @]

\* ------------------------------------------------------- APIUsageService model
\* the usage_info of an answer that carries None
NoUsageInfo == [given |-> FALSE]

\* a handler that lets the batch through when the lookup raises
check_api_limit_fail_open(l, t, required_calls, db_error) ==
    IF db_error
    THEN [ok |-> TRUE, msg |-> "", usage_info |-> NoUsageInfo]
    ELSE IF ~l.exists
    THEN [ok |-> FALSE, msg |-> "API usage record not found", usage_info |-> NoUsageInfo]
    ELSE IF summary_raises(l)
    THEN [ok |-> FALSE, msg |-> "Error checking API limits", usage_info |-> NoUsageInfo]
    ELSE [ok |-> can_make_api_calls(l, t, required_calls).ok,
          msg |-> can_make_api_calls(l, t, required_calls).msg,
          usage_info |-> [given |-> TRUE, value |-> get_usage_summary(l, t)]]

\* check_api_limit: (can_make_calls, error_message, usage_info); db_error: the
\* lookup raises
check_api_limit(l, t, required_calls, db_error) ==
    IF db_error
    THEN [ok |-> FALSE, msg |-> "Error checking API limits", usage_info |-> NoUsageInfo]
    ELSE IF ~l.exists
    THEN [ok |-> FALSE, msg |-> "API usage record not found", usage_info |-> NoUsageInfo]
    ELSE IF summary_raises(l)
    THEN [ok |-> FALSE, msg |-> "Error checking API limits", usage_info |-> NoUsageInfo]
    ELSE [ok |-> can_make_api_calls(l, t, required_calls).ok,
          msg |-> can_make_api_calls(l, t, required_calls).msg,
          usage_info |-> [given |-> TRUE, value |-> get_usage_summary(l, t)]]


\* ---------------------------------------------------- property analyzer model
\* a handler that returns placeholder values instead of zeros
analyze_single_property_placeholder(resp) ==
    IF resp.kind = "exception"
    THEN [indices |-> [ndvi |-> -1, ndbi |-> -1, ndwi |-> -1], error |-> resp.msg]
    ELSE IF resp.kind = "raster"
         THEN [indices |-> resp.data, error |-> ""]
         ELSE [indices |-> Zeros, error |-> "No satellite data available"]

\* _analyze_single_property: the (indices, error_message) pair it returns when
\* request.get_data() raises (the `except Exception` handler), returns a
\* raster (its band means) or returns nothing
analyze_single_property(resp) ==
    IF resp.kind = "exception"
    THEN [indices |-> Zeros, error |-> resp.msg]
    ELSE IF resp.kind = "raster"
         THEN [indices |-> resp.data, error |-> ""]
         ELSE [indices |-> Zeros, error |-> "No satellite data available"]

call_success_ndvi_only(m) ==
    m.error = "" /\ m.indices.ndvi # 0

\* `not error and any(v != 0.0 for v in indices.values())`
call_success(m) ==
    m.error = "" /\ (m.indices.ndvi # 0 \/ m.indices.ndbi # 0 \/ m.indices.ndwi # 0)

NoMeasurement == [indices |-> Zeros, error |-> "not measured"]

\* a row of the loaded table, before its loop iteration (the value columns and
\* the status column do not exist yet: NaN)
input_row(k, cell) ==
    [id |-> k, cell |-> cell, before |-> Zeros, after |-> Zeros, status |-> "NaN"]

\* the row of property `row` after its loop iteration
success_row(row, bm, am) ==
    [row EXCEPT !.before = bm.indices, !.after = am.indices,
                !.status = "Successful"]

failed_row(row, msg) ==
    [row EXCEPT !.before = Zeros, !.after = Zeros, !.status = msg]

error_message(bm, am) ==
    IF bm.error # "" THEN bm.error
    ELSE IF am.error # "" THEN am.error ELSE "API call failed"

property_row(row, bm, am) ==
    IF call_success(bm) /\ call_success(am)
    THEN success_row(row, bm, am)
    ELSE failed_row(row, error_message(bm, am))

\* what one iteration adds to successful_calls
counted_calls(bm, am) ==
    IF call_success(bm) /\ call_success(am) THEN 2
    ELSE (IF call_success(bm) THEN 1 ELSE 0) + (IF call_success(am) THEN 1 ELSE 0)

\* ------------------------------------------------------------- file names
TicksPerSecond == 2     \* clock readings that fall within one second

\* datetime.now().strftime("%Y%m%d_%H%M%S"): the reading cut to whole seconds
strftime(t) == t \div TicksPerSecond

Account == 1            \* the user_id of the account the runs belong to

\* UploadService._create_user_directories: upload_dir/<user_id>/<timestamp>/
create_user_directories(user_id, t) ==
    [input_dir  |-> << user_id, strftime(t), "input" >>,
     output_dir |-> << user_id, strftime(t), "output" >>]

\* the four dates of a request, as year, month, day
RequestDates ==
    << << 2022, 11, 1 >>, << 2023, 1, 31 >>, << 2025, 1, 1 >>, << 2025, 3, 31 >> >>

\* 'YYYY-MM-DD'.replace('-', '').replace(' ', '')
compact(d) == d[1] * 10000 + d[2] * 100 + d[3]

\* the three paths of _generate_output_file: the timestamp and the start
\* dates of the before and the after period, in output_dir
output_paths(output_dir, t, dates) ==
    LET stem == << output_dir, strftime(t), compact(dates[1]), compact(dates[3]) >>
    IN  [csv |-> << stem, "csv" >>, xlsx |-> << stem, "xlsx" >>,
         html |-> << stem, "html" >>]

NoPaths == [csv |-> << >>, xlsx |-> << >>, html |-> << >>]

\* ------------------------------------------------------------------- state
VARIABLES
    ledger,       \* the user_api_usage row of the account (NoRecord: none)
    now,          \* the clock, in days
    run,          \* run[p]: one call of process_file
    performed0,   \* performed_api_calls when the runs started
    op,           \* the last operation called on the ledger or on the accounts
    users,        \* the user_id's of the users table
    user_api_usage,   \* user_api_usage[u]: the rows of the table with user_id u
    setup,        \* setup[s]: one run of create_api_usage_for_existing_users
    clock,        \* the local wall clock datetime.now() reads, in seconds
    upload        \* upload[p]: one call of upload_and_process_file

vars == << ledger, now, run, performed0, op, users, user_api_usage, setup,
           clock, upload >>

\* the part of the state the batch runs do not touch
admin == << op, users, user_api_usage, setup, clock, upload >>

NoCheck ==
    [state |-> "none", expired |-> FALSE, remaining |-> 0, performed |-> 0,
     readable |-> FALSE, usage_info |-> FALSE]

NoArtifacts == [csv |-> NoFile, xlsx |-> NoFile, html |-> NoFile]

FreshRun ==
    [pc               |-> "NotStarted",
     df               |-> << >>,        \* the loaded table: one cell kind per row
     db_session       |-> FALSE,
     index            |-> 1,            \* next row of the property loop
     successful_calls |-> 0,
     failed_calls     |-> 0,
     api_call_count   |-> 0,
     processed_df     |-> << >>,        \* the table: one row per property
     last             |-> << NoMeasurement, NoMeasurement >>,
     met              |-> << "none", "none" >>,   \* what the last two requests did
     api_usage        |-> 0,            \* performed_api_calls read by the increment
     check            |-> NoCheck,      \* what the quota check saw and answered
     external_calls   |-> 0,            \* imagery requests issued
     good_calls       |-> 0,            \* analyzer calls that were successful
     increments       |-> 0,            \* calls of increment_api_usage
     committed        |-> 0,            \* calls added to the ledger by this run
     artifacts        |-> NoArtifacts,
     output_dir       |-> << >>,        \* the directory the caller passed
     dates            |-> << >>,
     paths            |-> NoPaths,      \* where the artifacts were written
     result           |-> "none"]       \* "path": returned; "error": raised

\* no operation called yet
NoOp == [name |-> "none"]

Accounts == {1, 2}

Scripts == {1, 2}

IdleSetup == [pc |-> "idle", todo |-> << >>, pending |-> << >>]

\* no row of the files table
NoFileRecord ==
    [exists |-> FALSE, processed_flag |-> FALSE, error_message |-> "",
     storage_location |-> ""]

IdleUpload ==
    [pc         |-> "idle",
     dirs       |-> << >>,          \* what _create_user_directories returned
     record     |-> NoFileRecord,   \* the row of the request in the files table
     processing |-> "none",         \* step 6: "returned" a path or "raised"
     error      |-> "",             \* str(e) of the exception being handled
     raised     |-> "none",         \* the exception the caller gets
     returned   |-> FALSE]          \* the caller got the FileUploadData

Init ==
    /\ \E e \in BOOLEAN, a \in {0, MaxAllowed} :
         \E pf \in 0 .. a :
            ledger = IF e THEN [exists |-> TRUE, allowed_api_calls |-> a,
                                performed_api_calls |-> pf,
                                user_created_date |-> ExpiryAt - ValidityDays,
                                user_expiry_date |-> ExpiryAt]
                          ELSE NoRecord
    /\ now = 0
    /\ run = [p \in Runs |-> FreshRun]
    /\ performed0 = ledger.performed_api_calls
    /\ op = NoOp
    /\ users = {}
    /\ user_api_usage = [u \in Accounts |-> << >>]
    /\ setup = [s \in Scripts |-> IdleSetup]
    /\ clock = 0
    /\ upload = [p \in Runs |-> IdleUpload]

Abort(r) == [r EXCEPT !.pc = "Aborted", !.result = "error"]

\* ------------------------------------------------ process_file, step by step
\* Step 1: the call and _load_file.  n = 0: the file is empty and loading raises.
Start(p, session) ==
    /\ run[p].pc = "NotStarted"
    /\ \E n \in 0 .. MaxProps :
         \E cells \in [1 .. n -> CellKinds] :
            run' = [run EXCEPT ![p] =
                      IF n = 0 THEN Abort(@)
                      ELSE [@ EXCEPT !.pc = "Loaded",
                                     !.df = cells,
                                     !.processed_df = [k \in 1 .. n |-> input_row(k, cells[k])],
                                     !.db_session = session,
                                     !.output_dir =
                                        create_user_directories(Account, clock).output_dir,
                                     !.dates = RequestDates]]
    /\ UNCHANGED << ledger, now, performed0, admin >>

required_calls_one_per_property(r) == Len(r.df)

\* the capacity the check asks for: two calls per property
required_calls(r) == Len(r.df) * 2

\* Step 2: the quota check, made only when a session was passed
CheckLimit(p) ==
    /\ run[p].pc = "Loaded"
    /\ IF run[p].db_session
       THEN \E db_error \in BOOLEAN :
              LET ans == check_api_limit(ledger, now, required_calls(run[p]), db_error)
                  saw == [state     |-> IF ans.ok THEN "passed" ELSE "failed",
                          expired   |-> ledger.exists /\ now > ledger.user_expiry_date,
                          remaining |-> ledger.allowed_api_calls
                                          - ledger.performed_api_calls,
                          performed |-> ledger.performed_api_calls,
                          readable  |-> /\ ~db_error
                                        /\ ledger.exists
                                        /\ ~summary_raises(ledger),
                          usage_info |-> ans.usage_info.given]
              IN run' = [run EXCEPT ![p] =
                           IF ans.ok
                           THEN [@ EXCEPT !.pc = "Processing", !.check = saw]
                           ELSE [Abort(@) EXCEPT !.check = saw]]
       ELSE run' = [run EXCEPT ![p].pc = "Processing"]
    /\ UNCHANGED << ledger, now, performed0, admin >>

\* the run is inside request.get_data() and the service does not answer
Blocked(r, bm, issued, logged) ==
    [r EXCEPT !.pc = "Blocked",
              !.last = << bm, NoMeasurement >>,
              !.api_call_count = @ + logged,
              !.external_calls = @ + issued,
              !.good_calls = @ + (IF call_success(bm) THEN 1 ELSE 0)]

\* Step 4, one iteration of the property loop on row k, given what the before
\* call (b) and the after call (a) meet.  Nothing in the inner try raises (the
\* analyzer returns a pair whatever the request does), so its handler is
\* never entered.
iteration(r, k, b, a) ==
    IF b.kind = "hang"
    THEN Blocked(r, NoMeasurement, 1, 0)
    ELSE IF a.kind = "hang"
    THEN Blocked(r, analyze_single_property(b), 2, 1)
    ELSE LET bm == analyze_single_property(b)
             am == analyze_single_property(a)
         IN
         [r EXCEPT !.successful_calls = @ + counted_calls(bm, am),
                   !.failed_calls = @ + (2 - counted_calls(bm, am)),
                   !.processed_df[k] = property_row(@, bm, am),
                   !.last = << bm, am >>,
                   !.met = << b.kind, a.kind >>,
                   !.api_call_count = @ + 2,
                   !.external_calls = @ + 2,
                   !.good_calls = @ + (IF call_success(bm) THEN 1 ELSE 0)
                                    + (IF call_success(am) THEN 1 ELSE 0),
                   !.index = k + 1]

\* A text in LATITUDE / LONGITUDE / extent_ac makes the formatting and the
\* comparison ahead of the inner try raise: the loop's outer handler turns it
\* into the failure of the whole run.
AnalyzeProperty(p, R) ==
    /\ run[p].pc = "Processing"
    /\ run[p].index <= Len(run[p].df)
    /\ LET k == run[p].index IN
       IF run[p].df[k] = "text"
       THEN run' = [run EXCEPT ![p] = Abort(@)]
       ELSE \E b \in R, a \in R :
              /\ b.kind = "hang" => a = b
              /\ run' = [run EXCEPT ![p] = iteration(@, k, b, a)]
    /\ UNCHANGED << ledger, now, performed0, admin >>

IsSuccessfulRow(row) == row.status = "Successful"

returned_rows_dropping_failed(df) == SelectSeq(df, IsSuccessfulRow)

\* the table the loop returns: every row, the failed ones included
returned_rows(df) == df

\* End of the loop: _log_batch_summary divides by api_call_count
FinishLoop(p) ==
    /\ run[p].pc = "Processing"
    /\ run[p].index > Len(run[p].df)
    /\ run' = [run EXCEPT ![p] =
                 IF @.api_call_count = 0 THEN Abort(@)
                 ELSE [@ EXCEPT !.pc = "Step5",
                                !.processed_df = returned_rows(@)]]
    /\ UNCHANGED << ledger, now, performed0, admin >>

BeginIncrement_unguarded(p) ==
    /\ run[p].pc = "Step5"
    /\ IF run[p].db_session
       THEN run' = [run EXCEPT ![p] =
                      IF ~ledger.exists
                      THEN [@ EXCEPT !.pc = "Step6", !.increments = @ + 1]
                      ELSE [@ EXCEPT !.pc = "Incrementing",
                                     !.increments = @ + 1,
                                     !.api_usage = ledger.performed_api_calls]]
       ELSE run' = [run EXCEPT ![p].pc = "Step6"]
    /\ UNCHANGED << ledger, now, performed0, admin >>

\* Step 5, first half: `if db_session and successful_calls > 0` and, inside
\* increment_api_usage, the SELECT of the account's row (db_error: it raises)
BeginIncrement(p) ==
    /\ run[p].pc = "Step5"
    /\ IF run[p].db_session /\ run[p].successful_calls > 0
       THEN \E db_error \in BOOLEAN :
              run' = [run EXCEPT ![p] =
                        IF db_error \/ ~ledger.exists
                        THEN \* returns False; process_file does not look at it
                             [@ EXCEPT !.pc = "Step6", !.increments = @ + 1]
                        ELSE [@ EXCEPT !.pc = "Incrementing",
                                       !.increments = @ + 1,
                                       !.api_usage = ledger.performed_api_calls]]
       ELSE run' = [run EXCEPT ![p].pc = "Step6"]
    /\ UNCHANGED << ledger, now, performed0, admin >>

\* the row the increment's UPDATE writes: the value read by this session plus
\* the successful calls of this run
updated_row(l, r) ==
    increment_api_calls([l EXCEPT !.performed_api_calls = r.api_usage],
                        r.successful_calls)

\* Step 5, second half: increment_api_calls on the loaded object and the commit
\* (commit_error: the commit raises, the session rolls back, False is returned)
CommitIncrement(p) ==
    /\ run[p].pc = "Incrementing"
    /\ \E commit_error \in BOOLEAN :
         IF commit_error
         THEN /\ run' = [run EXCEPT ![p].pc = "Step6"]
              /\ UNCHANGED ledger
         ELSE /\ ledger' = updated_row(ledger, run[p])
              /\ run' = [run EXCEPT ![p].pc = "Step6",
                                    ![p].committed = @ + run[p].successful_calls]
    /\ UNCHANGED << now, performed0, admin >>

\* ------------------------------------------------------- change classifier
Blank == [ndvi |-> "", ndbi |-> "", ndwi |-> ""]

\* The index values and the thresholds count steps of 0.00005, half of the
\* fourth decimal.

\* round(x, 4): the nearest multiple of 0.0001, a tie going to the even one
round4(x) ==
    IF x % 2 = 0 THEN x
    ELSE IF (x \div 2) % 2 = 0 THEN 2 * (x \div 2) ELSE 2 * ((x \div 2) + 1)

abs(x) == IF x < 0 THEN -x ELSE x

\* the significance threshold of each index: 3.0, 5.0 and 0.05
threshold == [ndvi |-> 60000, ndbi |-> 100000, ndwi |-> 1000]

\* config_data['change_detection'] with default_threshold d: the boundaries
\* of ndvi are -0.1 and 0.1, those of ndbi -0.2 and 0.05, those of ndwi -0.05
\* and 0.05
change_detection(d) ==
    [default_threshold |-> d,
     ndvi_thresholds |-> [moderate_increase |-> 2000, moderate_decrease |-> -2000],
     ndbi_thresholds |-> [minor_increase |-> 1000, demolition |-> -4000],
     ndwi_thresholds |-> [water_appearance |-> threshold.ndwi,
                          water_reduction |-> -threshold.ndwi]]

\* the configurations: default_threshold is the one key the significance of
\* ndvi and of ndbi is read from
Configurations == {change_detection(d) : d \in {threshold.ndvi, threshold.ndbi}}

\* self.thresholds of the processor of the batch runs
thresholds == change_detection(threshold.ndvi)

interpret_ndvi_change(th, difference) ==
    IF difference >= th.ndvi_thresholds.moderate_increase
    THEN "Vegetation growth or improvement"
    ELSE IF difference <= th.ndvi_thresholds.moderate_decrease
    THEN "Vegetation loss or degradation"
    ELSE "No significant vegetation change"

interpret_ndbi_change_ndvi_pair(th, difference) ==
    IF difference >= th.ndvi_thresholds.moderate_increase
    THEN "Construction or development increase"
    ELSE IF difference <= th.ndvi_thresholds.moderate_decrease
    THEN "Construction or development decrease"
    ELSE "No significant built-up area change"

interpret_ndbi_change(th, difference) ==
    IF difference >= th.ndbi_thresholds.minor_increase
    THEN "Construction or development increase"
    ELSE IF difference <= th.ndbi_thresholds.demolition
    THEN "Construction or development decrease"
    ELSE "No significant built-up area change"

interpret_ndwi_change(th, difference) ==
    IF difference >= th.ndwi_thresholds.water_appearance
    THEN "Water increase or flooding"
    ELSE IF difference <= th.ndwi_thresholds.water_reduction
    THEN "Water decrease or drought"
    ELSE "No significant water change"

YesNo(b) == IF b THEN "Yes" ELSE "No"

classified_row_dropping_status(row, th) ==
    LET diff == [ndvi |-> round4(row.after.ndvi - row.before.ndvi),
                 ndbi |-> round4(row.after.ndbi - row.before.ndbi),
                 ndwi |-> round4(row.after.ndwi - row.before.ndwi)]
        ok   == row.status = "Successful"
    IN
    [id |-> row.id, cell |-> row.cell, before |-> row.before, after |-> row.after,
     difference |-> IF ok THEN diff ELSE Blank,
     interpretation |->
        IF ok THEN [ndvi |-> interpret_ndvi_change(th, diff.ndvi),
                    ndbi |-> interpret_ndbi_change(th, diff.ndbi),
                    ndwi |-> interpret_ndwi_change(th, diff.ndwi)]
        ELSE Blank,
     significance |->
        IF ok THEN [ndvi |-> YesNo(abs(diff.ndvi) >= th.default_threshold),
                    ndbi |-> YesNo(abs(diff.ndbi) >= th.default_threshold),
                    ndwi |-> YesNo(abs(diff.ndwi) >= th.ndwi_thresholds.water_appearance)]
        ELSE Blank,
     Conversion_status |-> IF ok THEN row.status ELSE ""]

\* one row of _calculate_differences_and_interpretations
classified_row(row, th) ==
    LET diff == [ndvi |-> round4(row.after.ndvi - row.before.ndvi),
                 ndbi |-> round4(row.after.ndbi - row.before.ndbi),
                 ndwi |-> round4(row.after.ndwi - row.before.ndwi)]
        ok   == row.status = "Successful"
    IN
    [id |-> row.id, cell |-> row.cell, before |-> row.before, after |-> row.after,
     difference |-> IF ok THEN diff ELSE Blank,
     interpretation |->
        IF ok THEN [ndvi |-> interpret_ndvi_change(th, diff.ndvi),
                    ndbi |-> interpret_ndbi_change(th, diff.ndbi),
                    ndwi |-> interpret_ndwi_change(th, diff.ndwi)]
        ELSE Blank,
     significance |->
        IF ok THEN [ndvi |-> YesNo(abs(diff.ndvi) >= th.default_threshold),
                    ndbi |-> YesNo(abs(diff.ndbi) >= th.default_threshold),
                    ndwi |-> YesNo(abs(diff.ndwi) >= th.ndwi_thresholds.water_appearance)]
        ELSE Blank,
     Conversion_status |-> row.status]

calculate_differences_and_interpretations(df, th) ==
    [k \in 1 .. Len(df) |-> classified_row(df[k], th)]

\* Step 6
Classify(p) ==
    /\ run[p].pc = "Step6"
    /\ run' = [run EXCEPT ![p].pc = "Step7",
                          ![p].processed_df =
                             calculate_differences_and_interpretations(@, thresholds)]
    /\ UNCHANGED << ledger, now, performed0, admin >>

\* ------------------------------------------------------------ report emitter
\* the rows df.to_csv / df.to_excel / Styler.to_html write
written_rows(df) == df

\* Step 7, _generate_output_file: the CSV, then the spreadsheet (styled, and
\* plain when styling fails), then the HTML, whose failure is only logged
Emit(p) ==
    /\ run[p].pc = "Step7"
    /\ \E csv_fail, excel_fail, html_fail \in BOOLEAN :
         /\ csv_fail => (~excel_fail /\ ~html_fail)
         /\ excel_fail => ~html_fail
         /\ run' = [run EXCEPT ![p] =
              IF csv_fail THEN Abort(@)
              ELSE IF excel_fail
              THEN [Abort(@) EXCEPT !.artifacts.csv = written_rows(run[p].processed_df),
                                    !.paths = output_paths(run[p].output_dir, clock,
                                                           run[p].dates)]
              ELSE [@ EXCEPT !.pc = "Completed", !.result = "path",
                             !.paths = output_paths(run[p].output_dir, clock,
                                                    run[p].dates),
                             !.artifacts =
                                [csv  |-> written_rows(run[p].processed_df),
                                 xlsx |-> written_rows(run[p].processed_df),
                                 html |-> IF html_fail THEN NoFile
                                          ELSE written_rows(run[p].processed_df)]]]
    /\ UNCHANGED << ledger, now, performed0, admin >>

\* the next upload of the account
NewRun(p) ==
    /\ run[p].pc \in {"Completed", "Aborted"}
    /\ run' = [run EXCEPT ![p] = FreshRun]
    /\ performed0' = ledger.performed_api_calls
    /\ UNCHANGED << ledger, now, admin >>

Tick ==
    /\ now < MaxTime
    /\ now' = now + 1
    /\ UNCHANGED << ledger, run, performed0, admin >>

\* ------------------------------------------- the ledger object, called directly
MaxDays == 2        \* largest number of days of an extension

\* the ledger does not change while the runs of process_file are left alone
batch == << run, performed0, users, user_api_usage, setup, clock, upload >>

\* UserAPIUsage.create_for_user for an account that has no row
CallCreateForUser ==
    /\ ~ledger.exists
    /\ \E allowed_calls \in {MaxAllowed, DefaultAllowed} :
         /\ ledger' = create_for_user(allowed_calls, now)
         /\ op' = [name |-> "create_for_user", before |-> ledger, at |-> now]
    /\ UNCHANGED << now, batch >>

CallCanMakeApiCalls ==
    /\ ledger.exists
    /\ \E required \in 0 .. MaxAllowed + 1 :
         op' = [name |-> "can_make_api_calls", before |-> ledger, at |-> now,
                required_calls |-> required,
                result |-> can_make_api_calls(ledger, now, required)]
    /\ UNCHANGED << ledger, now, batch >>

\* increment_api_calls with the successful calls of a batch
CallIncrementApiCalls ==
    /\ ledger.exists
    /\ \E successful_calls \in 1 .. 2 * MaxProps :
         /\ ledger.performed_api_calls + successful_calls <= MaxAllowed + 1
         /\ ledger' = increment_api_calls(ledger, successful_calls)
         /\ op' = [name |-> "increment_api_calls", before |-> ledger, at |-> now,
                   successful_calls |-> successful_calls]
    /\ UNCHANGED << now, batch >>

\* get_usage_summary: the dictionary it returns, or the ZeroDivisionError of
\* usage_percentage
CallGetUsageSummary ==
    /\ ledger.exists
    /\ op' = IF summary_raises(ledger)
             THEN [name |-> "get_usage_summary", before |-> ledger, at |-> now,
                   raised |-> TRUE]
             ELSE [name |-> "get_usage_summary", before |-> ledger, at |-> now,
                   raised |-> FALSE, result |-> get_usage_summary(ledger, now)]
    /\ UNCHANGED << ledger, now, batch >>

CallExtendExpiry ==
    /\ ledger.exists
    /\ \E days \in 1 .. MaxDays :
         /\ ledger' = extend_expiry(ledger, now, days)
         /\ ledger'.user_expiry_date <= MaxTime + MaxDays
         /\ op' = [name |-> "extend_expiry", before |-> ledger, at |-> now,
                   days |-> days]
    /\ UNCHANGED << now, batch >>

CallResetApiCalls ==
    /\ ledger.exists
    /\ \E new_limit \in {None} \cup {Limit(n) : n \in {0, 1, MaxAllowed}} :
         /\ ledger' = reset_api_calls(ledger, new_limit)
         /\ op' = [name |-> "reset_api_calls", before |-> ledger, at |-> now,
                   new_limit |-> new_limit]
    /\ UNCHANGED << now, batch >>

\* ------------------------------------- APIUsageService, administrative methods
\* extend_user_expiry and reset_user_api_calls are plain `def`s that call the
\* coroutine function get_user_api_usage without awaiting it: api_usage is a
\* coroutine object, which is truthy, and reading user_expiry_date (or
\* performed_api_calls) from it raises AttributeError; the handler calls
\* rollback and returns False.  The row is neither read nor written.
extend_user_expiry(l, t, days) == [ok |-> FALSE, row |-> l]

reset_user_api_calls(l, new_limit) == [ok |-> FALSE, row |-> l]

ExtendUserExpiry ==
    /\ \E days \in 1 .. MaxDays :
         LET ans == extend_user_expiry(ledger, now, days) IN
         /\ ledger' = ans.row
         /\ op' = [name |-> "extend_user_expiry", before |-> ledger, at |-> now,
                   days |-> days, result |-> ans.ok]
    /\ UNCHANGED << now, batch >>

ResetUserApiCalls ==
    /\ \E new_limit \in {None, Limit(MaxAllowed)} :
         LET ans == reset_user_api_calls(ledger, new_limit) IN
         /\ ledger' = ans.row
         /\ op' = [name |-> "reset_user_api_calls", before |-> ledger, at |-> now,
                   new_limit |-> new_limit, result |-> ans.ok]
    /\ UNCHANGED << now, batch >>

\* the clock of the ledger specification
Day ==
    /\ now < MaxTime
    /\ now' = now + 1
    /\ UNCHANGED << ledger, op, batch >>

\* ------------------------------------------------ accounts and their ledgers
MaxRows == 2        \* most rows of user_api_usage one account gets

\* the accounts do not touch the batch runs, nor the ledger they run against
elsewhere == << ledger, run, performed0, clock, upload >>

\* Result.scalar_one_or_none() of `select ... where user_id == u`: no row, the
\* row, or MultipleResultsFound (the table has no unique constraint on user_id)
scalar_one_or_none(rows) ==
    IF Len(rows) = 0 THEN "none" ELSE IF Len(rows) = 1 THEN "one" ELSE "raise"

\* RegistrationService.register_user for a new email: the user row is
\* committed (db_error: the commit raises) and the user's JSON file is
\* written; no row of user_api_usage is created
RegisterUser(u) ==
    /\ u \notin users
    /\ \E db_error \in BOOLEAN :
         /\ users' = IF db_error THEN users ELSE users \cup {u}
         /\ op' = [name |-> "register_user", user |-> u, at |-> now,
                   ok |-> ~db_error]
    /\ UNCHANGED << now, user_api_usage, setup, elsewhere >>

\* APIUsageService.create_api_usage_for_user: add and commit, without looking
\* for a row the account may have (ok = FALSE: the commit raises, as it does
\* when the foreign key finds no user)
CreateApiUsageForUser(u) ==
    /\ Len(user_api_usage[u]) < MaxRows
    /\ \E allowed_calls \in {DefaultAllowed}, commit_error \in BOOLEAN :
         LET ok == u \in users /\ ~commit_error IN
         /\ user_api_usage' =
              IF ok THEN [user_api_usage EXCEPT
                            ![u] = Append(@, create_for_user(allowed_calls, now))]
              ELSE user_api_usage
         /\ op' = [name |-> "create_api_usage_for_user", user |-> u, at |-> now,
                   ok |-> ok]
    /\ UNCHANGED << now, users, setup, elsewhere >>

\* APIUsageService.get_user_api_usage
GetUserApiUsage(u) ==
    /\ op' = [name |-> "get_user_api_usage", user |-> u, at |-> now,
              result |-> scalar_one_or_none(user_api_usage[u])]
    /\ UNCHANGED << now, users, user_api_usage, setup, elsewhere >>

\* the users in the order `select(User)` returns them
RECURSIVE users_in_order(_)
users_in_order(S) ==
    IF S = {} THEN << >>
    ELSE LET u == CHOOSE x \in S : \A y \in S : x <= y
         IN << u >> \o users_in_order(S \ {u})

\* create_api_usage_for_existing_users: the select of all users
SetupStart(s) ==
    /\ setup[s].pc = "idle"
    /\ setup' = [setup EXCEPT ![s] = [pc |-> "loop",
                                      todo |-> users_in_order(users),
                                      pending |-> << >>]]
    /\ UNCHANGED << now, op, users, user_api_usage, elsewhere >>

\* one iteration of its loop: the select of the user's row and, when there is
\* none, db.add of a new one (committed at the end)
SetupVisit(s) ==
    /\ setup[s].pc = "loop"
    /\ setup[s].todo # << >>
    /\ LET u == Head(setup[s].todo)
           found == scalar_one_or_none(user_api_usage[u])
       IN setup' = [setup EXCEPT ![s] =
            IF found = "raise" THEN [@ EXCEPT !.pc = "failed", !.pending = << >>]
            ELSE [@ EXCEPT !.todo = Tail(@),
                           !.pending = IF found = "none"
                                       THEN Append(@, [user_id |-> u,
                                                       row |-> create_for_user(DefaultAllowed, now)])
                                       ELSE @]]
    /\ UNCHANGED << now, op, users, user_api_usage, elsewhere >>

RECURSIVE inserted(_, _)
inserted(table, pending) ==
    IF pending = << >> THEN table
    ELSE inserted([table EXCEPT ![Head(pending).user_id] = Append(@, Head(pending).row)],
                  Tail(pending))

\* its commit of every added row (commit_error: the commit raises)
SetupCommit(s) ==
    /\ setup[s].pc = "loop"
    /\ setup[s].todo = << >>
    /\ \E commit_error \in BOOLEAN :
         IF commit_error
         THEN /\ setup' = [setup EXCEPT ![s].pc = "failed", ![s].pending = << >>]
              /\ UNCHANGED user_api_usage
         ELSE /\ user_api_usage' = inserted(user_api_usage, setup[s].pending)
              /\ setup' = [setup EXCEPT ![s].pc = "done", ![s].pending = << >>]
    /\ UNCHANGED << now, op, users, elsewhere >>

\* --------------------------------------------- upload_and_process_file
MaxClock == 2       \* last reading of the wall clock

Faults == {"none", "before_commit", "after_commit"}

\* UploadRepository.create_file_record
create_file_record(input_location) ==
    [exists |-> TRUE, processed_flag |-> FALSE, error_message |-> "",
     storage_location |-> input_location]

\* UploadRepository.update_processing_results: the row after the call, and
\* whether the call raised DatabaseException.  fault: the statement or the
\* commit fails ("before_commit"), or the select after the commit does
update_processing_results(record, values, fault) ==
    [record |-> IF fault = "before_commit" THEN record
                ELSE [f \in DOMAIN record |->
                        IF f \in DOMAIN values THEN values[f] ELSE record[f]],
     raised |-> fault # "none"]

\* steps 1 to 5: validate, make the directories, store the file, create the row
UploadReceive(p) ==
    /\ upload[p].pc = "idle"
    /\ \E failed \in {"none", "validate_file", "storage", "create_file_record"} :
         upload' = [upload EXCEPT ![p] =
            IF failed = "validate_file"
            THEN [@ EXCEPT !.pc = "Done", !.raised = "FileUploadException"]
            ELSE IF failed = "storage"
            THEN [@ EXCEPT !.pc = "Done", !.raised = "StorageException"]
            ELSE IF failed = "create_file_record"
            THEN [@ EXCEPT !.pc = "Done", !.raised = "FileUploadException",
                           !.dirs = create_user_directories(Account, clock)]
            ELSE [@ EXCEPT !.pc = "Recorded",
                           !.dirs = create_user_directories(Account, clock),
                           !.record = create_file_record("input")]]
    /\ UNCHANGED << ledger, now, run, performed0, op, users, user_api_usage,
                    setup, clock >>

\* steps 6 and 7.  A geospatial file goes to RealSentinelHubProcessor.process_file,
\* called without its required user_id: the call raises TypeError.  Any other
\* file goes to CoreFileProcessor.process_file, which returns a path or raises.
UploadProcess(p) ==
    /\ upload[p].pc = "Recorded"
    /\ \E is_geospatial, core_fails, formatted \in BOOLEAN, fault \in Faults :
         LET u == upload[p]
             updated == update_processing_results(u.record,
                           [storage_location |-> IF formatted THEN "xlsx" ELSE "csv",
                            processed_flag |-> TRUE], fault)
         IN  upload' = [upload EXCEPT ![p] =
               IF is_geospatial
               THEN [@ EXCEPT !.pc = "Handling", !.processing = "raised",
                              !.error = "missing 1 required positional argument: 'user_id'"]
               ELSE IF core_fails
               THEN [@ EXCEPT !.pc = "Handling", !.processing = "raised",
                              !.error = "Processing failed"]
               ELSE IF updated.raised
               THEN [@ EXCEPT !.pc = "Handling", !.processing = "returned",
                              !.record = updated.record,
                              !.error = "Failed to update file record"]
               ELSE [@ EXCEPT !.pc = "Done", !.processing = "returned",
                              !.record = updated.record, !.returned = TRUE]]
    /\ UNCHANGED << ledger, now, run, performed0, op, users, user_api_usage,
                    setup, clock >>

\* the handler of lines 258-267: mark the row as failed, then raise
\* FileProcessingException; a DatabaseException of the update leaves the
\* handler instead and is wrapped by the outer `except Exception`
UploadHandle(p) ==
    /\ upload[p].pc = "Handling"
    /\ \E fault \in Faults :
         LET u == upload[p]
             updated == update_processing_results(u.record,
                           [processed_flag |-> FALSE, error_message |-> u.error],
                           fault)
         IN  upload' = [upload EXCEPT ![p] =
               [@ EXCEPT !.pc = "Done", !.record = updated.record,
                         !.raised = IF updated.raised THEN "FileUploadException"
                                    ELSE "FileProcessingException"]]
    /\ UNCHANGED << ledger, now, run, performed0, op, users, user_api_usage,
                    setup, clock >>

\* the wall clock advances
Tock ==
    /\ clock < MaxClock
    /\ clock' = clock + 1
    /\ UNCHANGED << ledger, now, run, performed0, op, users, user_api_usage,
                    setup, upload >>

\* ----------------------------------------- the change classifier, called directly
\* the sizes of the changes tried, in steps of 0.00005
Magnitudes == {0, 999, 1000, 2000, 80000, 100000}

\* a before and an after value of one index: a rise or a fall by a magnitude
Pairs == {<< 0, d >> : d \in Magnitudes} \cup {<< d, 0 >> : d \in Magnitudes}

\* the rows the property loop hands to the classifier: a successful row has a
\* non-zero index before and after, a failed row zeros and an error text
LoopRows ==
    {success_row(input_row(1, "num"),
                 [indices |-> [ndvi |-> v[1], ndbi |-> b[1], ndwi |-> w[1]], error |-> ""],
                 [indices |-> [ndvi |-> v[2], ndbi |-> b[2], ndwi |-> w[2]], error |-> ""]) :
        v \in Pairs, b \in Pairs, w \in Pairs}
    \cup {failed_row(input_row(1, "num"), e) :
             e \in {"request failed", "No satellite data available", "API call failed"}}

CallClassify ==
    /\ op = NoOp
    /\ \E row \in LoopRows, th \in Configurations :
         /\ row.status = "Successful"
              => /\ \E i \in DOMAIN row.before : row.before[i] # 0
                 /\ \E i \in DOMAIN row.after : row.after[i] # 0
         /\ op' = [name |-> "classify", row |-> row, thresholds |-> th,
                   result |-> classified_row(row, th)]
    /\ UNCHANGED << ledger, now, run, performed0, users, user_api_usage, setup,
                    clock, upload >>

\* ------------------------------------------------- the styling of the views
MaxTable == 3       \* most rows of a styled table

\* the texts of the status column: the success text, error texts, the empty
\* text and a missing value (NaN)
Statuses == {"Successful", "request failed", "API call failed", "", "NaN"}

\* the value openpyxl reads back from the cell df.to_excel wrote
cell_value(status) == IF status \in {"", "NaN"} THEN "None" ELSE status

\* td.textContent.trim() of the cell Styler.to_html rendered
text_content(status) == IF status = "NaN" THEN "nan" ELSE status

\* _generate_excel_output, lines 658-667
excel_highlight(status_value) ==
    IF status_value = "Successful" THEN "status cell green" ELSE "row red"

\* color_row of _generate_html_output, for a table with the status column
color_row(status) ==
    IF status = "Successful" THEN "status cell green" ELSE "row red"

\* the script of the HTML page, lines 736-748
script_highlight(status) ==
    IF status = "Successful" THEN "status cell green"
    ELSE IF status # "Successful" /\ status # "" THEN "row red"
    ELSE "none"

Tables == UNION {[1 .. n -> Statuses] : n \in 1 .. MaxTable}

\* the three views of one table
CallStyle ==
    /\ op = NoOp
    /\ \E t \in Tables :
         op' = [name   |-> "style",
                table  |-> t,
                excel  |-> [k \in DOMAIN t |-> excel_highlight(cell_value(t[k]))],
                html   |-> [k \in DOMAIN t |-> color_row(t[k])],
                script |-> [k \in DOMAIN t |-> script_highlight(text_content(t[k]))]]
    /\ UNCHANGED << ledger, now, run, performed0, users, user_api_usage, setup,
                    clock, upload >>

\* ------------------------------------------------------------ specifications
\* one run at a time, any arguments, any response
Next ==
    \/ \E session \in BOOLEAN : Start(1, session)
    \/ CheckLimit(1)
    \/ AnalyzeProperty(1, Responses)
    \/ FinishLoop(1)
    \/ BeginIncrement(1)
    \/ CommitIncrement(1)
    \/ Classify(1)
    \/ Emit(1)
    \/ NewRun(1)
    \/ Tick

Spec == Init /\ [][Next]_vars

\* two runs of the same account, each with its own session, interleaved
NextConc ==
    \/ \E p \in Runs :
         \/ Start(p, TRUE)
         \/ CheckLimit(p)
         \/ AnalyzeProperty(p, FewResponses)
         \/ FinishLoop(p)
         \/ BeginIncrement(p)
         \/ CommitIncrement(p)
         \/ Classify(p)
         \/ Emit(p)
    \/ Tick

SpecConc == Init /\ [][NextConc]_vars

\* a step of run p when the imagery service may also not answer
RunStep(p) ==
    \/ CheckLimit(p)
    \/ AnalyzeProperty(p, FewResponses \cup {NoAnswer})
    \/ FinishLoop(p)
    \/ BeginIncrement(p)
    \/ CommitIncrement(p)
    \/ Classify(p)
    \/ Emit(p)

NextLive ==
    \/ \E session \in BOOLEAN : Start(1, session)
    \/ RunStep(1)
    \/ Tick

\* one run on the event loop: once called, the coroutine is resumed whenever
\* it can take a step
SpecLive == Init /\ [][NextLive]_vars /\ WF_vars(RunStep(1))

\* the operations of one ledger, called one after the other
NextLedger ==
    \/ CallCreateForUser
    \/ CallCanMakeApiCalls
    \/ CallIncrementApiCalls
    \/ CallGetUsageSummary
    \/ CallExtendExpiry
    \/ CallResetApiCalls
    \/ ExtendUserExpiry
    \/ ResetUserApiCalls
    \/ Day

SpecLedger == Init /\ [][NextLedger]_vars

InitProvision == Init /\ ledger = NoRecord

\* registration, the provisioning service and two runs of the setup script
NextProvision ==
    \/ \E u \in Accounts :
         \/ RegisterUser(u)
         \/ CreateApiUsageForUser(u)
         \/ GetUserApiUsage(u)
    \/ \E s \in Scripts :
         \/ SetupStart(s)
         \/ SetupVisit(s)
         \/ SetupCommit(s)
    \/ Day

SpecProvision == InitProvision /\ [][NextProvision]_vars

InitNames ==
    /\ Init
    /\ ledger.exists
    /\ ledger.allowed_api_calls = MaxAllowed
    /\ ledger.performed_api_calls = 0

\* two runs of the same account, called while the wall clock advances
NextNames ==
    \/ \E p \in Runs :
         \/ Start(p, TRUE)
         \/ CheckLimit(p)
         \/ AnalyzeProperty(p, FewResponses)
         \/ FinishLoop(p)
         \/ BeginIncrement(p)
         \/ CommitIncrement(p)
         \/ Classify(p)
         \/ Emit(p)
    \/ Tock

SpecNames == InitNames /\ [][NextNames]_vars

\* two requests of the same account handled by the upload service
NextUpload ==
    \/ \E p \in Runs :
         \/ UploadReceive(p)
         \/ UploadProcess(p)
         \/ UploadHandle(p)
    \/ Tock

SpecUpload == InitProvision /\ [][NextUpload]_vars

\* the classifier applied to one table row of one configuration
NextClassify == CallClassify

SpecClassify == InitProvision /\ [][NextClassify]_vars

\* the report emitter's styling applied to one table
NextStyle == CallStyle

SpecStyle == InitProvision /\ [][NextStyle]_vars

\* ================================================================== claims
Admitted(r) == r.check.state = "passed"

Ended(r) == r.pc \in {"Completed", "Aborted"}

AfterIncrement(r) == r.pc \in {"Step6", "Step7", "Completed"}

NonZero(ix) == ix.ndvi # 0 \/ ix.ndbi # 0 \/ ix.ndwi # 0

\* the rows of table t are the rows of the input df, one for one, in its order
Conserved(t, df) ==
    /\ Len(t) = Len(df)
    /\ \A k \in 1 .. Len(t) : t[k].id = k /\ t[k].cell = df[k]

\* C1: whenever the quota check of a run saw an expired ledger or fewer
\* remaining calls than 2*N, the run is aborted with an error, has issued no
\* imagery request and has not touched the ledger: performed_api_calls is what
\* it was when the run started.
C1_QuotaGate ==
    \A p \in Runs :
       LET r == run[p] IN
       (r.check.state # "none"
          /\ (r.check.expired \/ r.check.remaining < 2 * Len(r.df)))
         => /\ r.pc = "Aborted"
            /\ r.result = "error"
            /\ r.external_calls = 0
            /\ r.increments = 0
            /\ r.committed = 0
            /\ ledger.performed_api_calls = performed0

C1_Witness ==
    /\ run[1].pc = "Aborted"
    /\ run[1].check.state = "failed"
    /\ ledger.exists
    /\ ledger.allowed_api_calls = MaxAllowed
    /\ ~run[1].check.expired
    /\ run[1].check.remaining > 0
    /\ run[1].check.remaining < 2 * Len(run[1].df)

\* C2: when an admitted run has ended, performed_api_calls has grown by
\* exactly the number of individually successful analyzer calls of the run.
C2_SpendEqualsSuccessfulCalls ==
    \A p \in Runs :
       (Admitted(run[p]) /\ Ended(run[p]))
         => ledger.performed_api_calls = performed0 + run[p].good_calls

\* C3: the table handed to the report emitter, and every artifact written
\* from it, holds exactly the N input rows in the input order; a run that
\* returns has written the CSV and the spreadsheet.
C3_RowConservation ==
    \A p \in Runs :
       LET r == run[p] IN
       /\ r.pc \in {"Step5", "Incrementing", "Step6", "Step7", "Completed"}
            => Conserved(r.processed_df, r.df)
       /\ \A f \in {"csv", "xlsx", "html"} :
            r.artifacts[f] # NoFile => Conserved(r.artifacts[f], r.df)
       /\ r.result = "path"
            => r.artifacts.csv # NoFile /\ r.artifacts.xlsx # NoFile

C3_Witness ==
    /\ run[1].pc = "Completed"
    /\ Len(run[1].df) = MaxProps
    /\ run[1].artifacts.html # NoFile
    /\ run[1].artifacts.csv[1].Conversion_status # "Successful"
    /\ run[1].artifacts.csv[MaxProps].Conversion_status = "Successful"

\* C4: the row of the property handled last is marked 'Successful' exactly
\* when its before measurement has an empty error and a non-zero index and
\* its after measurement has an empty error and a non-zero index; otherwise
\* it carries a failure text.
C4_StatusConsistency ==
    \A p \in Runs :
       LET r == run[p] IN
       (r.index > 1 /\ r.pc \in {"Processing", "Step5", "Incrementing", "Step6"})
         => LET row == r.processed_df[r.index - 1]
                bm  == r.last[1]
                am  == r.last[2]
            IN /\ row.status = "Successful"
                    <=> /\ bm.error = "" /\ NonZero(bm.indices)
                        /\ am.error = "" /\ NonZero(am.indices)
               /\ row.status # "NaN"

C4_Witness ==
    /\ run[1].pc = "Processing"
    /\ run[1].index = 2
    /\ run[1].processed_df[1].status = "Successful"
    /\ run[1].last[1].indices.ndvi = 0
    /\ run[1].last[2].indices.ndvi # 0

\* C5: handling one property never aborts the run, and never changes the row
\* of another property.
C5_FailureIsolation ==
    [][\A p \in Runs :
         (run[p].pc = "Processing" /\ run[p].index <= Len(run[p].df))
           => /\ run'[p].pc # "Aborted"
              /\ \A j \in 1 .. Len(run[p].df) :
                   j # run[p].index
                     => run'[p].processed_df[j] = run[p].processed_df[j]]_vars

\* C6: a run returns an output path only when the successful calls it asked
\* the ledger to add have been committed.
C6_DurableSpend ==
    \A p \in Runs :
       (run[p].result = "path" /\ run[p].increments > 0)
         => run[p].committed = run[p].successful_calls

\* C7: after the increments of both runs have committed, performed_api_calls
\* is its initial value plus the successful calls of both.
C7_NoLostUpdate ==
    (run[1].committed > 0 /\ run[2].committed > 0)
      => ledger.performed_api_calls
           = performed0 + run[1].committed + run[2].committed

InFlight(r) == Admitted(r) /\ r.pc \in {"Processing", "Step5", "Incrementing"}

\* C8, its particular case: two runs in flight at once that were admitted
\* against the same performed_api_calls do not together require more calls
\* than remained (otherwise at most one of them would have been admitted).
C8_NoStaleAdmission ==
    (/\ InFlight(run[1]) /\ InFlight(run[2])
     /\ run[1].check.performed = run[2].check.performed)
      => 2 * Len(run[1].df) + 2 * Len(run[2].df) <= run[1].check.remaining

C10_CheckBeforeSpend ==
    \A p \in Runs :
       LET r == run[p] IN
       /\ r.external_calls > 0 => r.check.state = "passed"
       /\ (AfterIncrement(r) /\ r.good_calls > 0) => r.increments = 1

\* C11: a call of can_make_api_calls fails with the expiry reason exactly when
\* the instant of the call is after the expiry date, whatever the quota is;
\* otherwise it fails with the quota reason exactly when allowed - performed
\* is less than the required count; otherwise it succeeds (required =
\* remaining included); and the ledger is what it was before the call.
C11_CanSpendRule ==
    op.name = "can_make_api_calls"
      => LET l == op.before
             remaining == l.allowed_api_calls - l.performed_api_calls
         IN /\ op.at > l.user_expiry_date
                 => op.result = [ok |-> FALSE, msg |-> "User account expired"]
            /\ (op.at <= l.user_expiry_date /\ remaining < op.required_calls)
                 => op.result = [ok |-> FALSE, msg |-> "API call limit exceeded"]
            /\ (op.at <= l.user_expiry_date /\ remaining >= op.required_calls)
                 => op.result = [ok |-> TRUE, msg |-> ""]
            /\ ledger = l

C11_Witness ==
    /\ op.name = "can_make_api_calls"
    /\ op.at <= op.before.user_expiry_date
    /\ op.required_calls > 0
    /\ op.required_calls
         = op.before.allowed_api_calls - op.before.performed_api_calls
    /\ op.result.ok

\* C12: performed_api_calls never decreases from one state to the next,
\* except by a reset, which sets it to 0.
C12_PerformedMonotone ==
    [][ledger'.performed_api_calls < ledger.performed_api_calls
         => (op'.name = "reset_api_calls" /\ ledger'.performed_api_calls = 0)]_vars

\* C13: after extend_expiry(days), the expiry date is the instant of the call
\* plus days when the ledger was expired at that instant, and the old expiry
\* date plus days when it was not; the allowed and performed counts and the
\* creation date are what they were.
C13_ExtendExpiryLaw ==
    op.name = "extend_expiry"
      => LET l == op.before IN
         /\ op.at > l.user_expiry_date
              => ledger.user_expiry_date = op.at + op.days
         /\ op.at <= l.user_expiry_date
              => ledger.user_expiry_date = l.user_expiry_date + op.days
         /\ ledger.allowed_api_calls = l.allowed_api_calls
         /\ ledger.performed_api_calls = l.performed_api_calls
         /\ ledger.user_created_date = l.user_created_date

C13_Witness ==
    /\ op.name = "extend_expiry"
    /\ op.at > op.before.user_expiry_date
    /\ op.before.performed_api_calls > 0
    /\ ledger.user_expiry_date = op.at + op.days
    /\ ledger.user_expiry_date # op.before.user_expiry_date + op.days

\* C14: after reset_api_calls(new_limit), performed_api_calls is 0,
\* allowed_api_calls is new_limit when one was given and what it was when
\* none was given, and the creation and expiry dates are what they were.
C14_ResetLaw ==
    op.name = "reset_api_calls"
      => LET l == op.before IN
         /\ ledger.performed_api_calls = 0
         /\ op.new_limit.given => ledger.allowed_api_calls = op.new_limit.value
         /\ ~op.new_limit.given => ledger.allowed_api_calls = l.allowed_api_calls
         /\ ledger.user_created_date = l.user_created_date
         /\ ledger.user_expiry_date = l.user_expiry_date

C14_Witness ==
    /\ op.name = "reset_api_calls"
    /\ op.before.performed_api_calls > 0
    /\ op.new_limit.given
    /\ op.new_limit.value = 0
    /\ op.before.allowed_api_calls # 0
    /\ ledger.allowed_api_calls = 0

\* C15: every call of get_usage_summary returns a summary, whose is_expired
\* says whether the instant of the call is after the expiry date, which is
\* exactly when can_make_api_calls fails with the expiry reason at that
\* instant, and whose days_until_expiry is never negative and is 0 when
\* is_expired is true.
C15_SummaryExpiryLaw ==
    op.name = "get_usage_summary"
      => /\ ~op.raised
         /\ op.result.is_expired = (op.at > op.before.user_expiry_date)
         /\ op.result.is_expired
              = (can_make_api_calls(op.before, op.at, 0).msg = "User account expired")
         /\ op.result.days_until_expiry >= 0
         /\ op.result.is_expired => op.result.days_until_expiry = 0

\* C19: for an account that has a ledger, extend_user_expiry and
\* reset_user_api_calls return True and leave the row changed by the extend
\* rule and by the reset rule.
C19_AdminMutationsTakeEffect ==
    /\ (op.name = "extend_user_expiry" /\ op.before.exists)
         => /\ op.result = TRUE
            /\ ledger.user_expiry_date
                 = IF op.at > op.before.user_expiry_date
                   THEN op.at + op.days
                   ELSE op.before.user_expiry_date + op.days
    /\ (op.name = "reset_user_api_calls" /\ op.before.exists)
         => /\ op.result = TRUE
            /\ ledger.performed_api_calls = 0
            /\ op.new_limit.given
                 => ledger.allowed_api_calls = op.new_limit.value

\* C16: after register_user has succeeded for a new account, the account has
\* a ledger row with performed_api_calls = 0, the default allowance and an
\* expiry date 30 days after its creation date, against which the quota check
\* of a first batch of one property passes.
C16_LedgerProvisioned ==
    (op.name = "register_user" /\ op.ok)
      => LET rows == user_api_usage[op.user] IN
         /\ Len(rows) >= 1
         /\ rows[1].performed_api_calls = 0
         /\ rows[1].allowed_api_calls = DefaultAllowed
         /\ rows[1].user_expiry_date = rows[1].user_created_date + ValidityDays
         /\ check_api_limit(rows[1], now, 2, FALSE).ok

\* C17: every account has at most one row of user_api_usage, and the lookup
\* by account never finds several.
C17_OneLedgerPerAccount ==
    /\ \A u \in Accounts : Len(user_api_usage[u]) <= 1
    /\ op.name = "get_user_api_usage" => op.result # "raise"

\* C18: whatever the request of the last iteration did (returned a raster,
\* returned nothing, raised), the analyzer handed back a pair of three indices
\* and an error text; for a request that returned no raster the three indices
\* are zero and the row of the property is not marked 'Successful'; and a run
\* is never failed inside the loop by what a request did: a run that failed
\* there failed on a text cell.
C18_AnalyzerNeverRaises ==
    \A p \in Runs :
       LET r == run[p] IN
       /\ (r.index > 1 /\ r.pc \in {"Processing", "Step5", "Incrementing", "Step6"})
            => \A i \in {1, 2} :
                 /\ DOMAIN r.last[i] = {"indices", "error"}
                 /\ DOMAIN r.last[i].indices = {"ndvi", "ndbi", "ndwi"}
                 /\ r.met[i] \in {"raster", "empty", "exception"}
                 /\ r.met[i] # "raster"
                      => /\ r.last[i].indices = Zeros
                         /\ r.processed_df[r.index - 1].status # "Successful"
       /\ (r.pc = "Aborted" /\ r.index <= Len(r.df) /\ r.check.state # "failed")
            => r.df[r.index] = "text"

C18_Witness ==
    /\ run[1].pc = "Processing"
    /\ run[1].index = 2
    /\ run[1].met = << "exception", "raster" >>
    /\ run[1].last[1].error = ""
    /\ run[1].last[2].indices.ndvi # 0
    /\ run[1].processed_df[1].status = "API call failed"
    /\ run[1].successful_calls = 1

\* C20: every run of process_file that has been called eventually reaches
\* Completed or Aborted, whatever the imagery service does.
C20_RunTerminates ==
    \A p \in Runs : (run[p].pc # "NotStarted") ~> Ended(run[p])

\* C21: emission is all-or-nothing: a run that has returned its path has
\* written the CSV, the spreadsheet and the HTML from the same table, and a
\* run that has failed has left none of the three files behind.
C21_EmissionAllOrNothing ==
    \A p \in Runs :
       LET r == run[p] IN
       /\ r.result = "path"
            => /\ r.artifacts.csv # NoFile
               /\ r.artifacts.xlsx = r.artifacts.csv
               /\ r.artifacts.html = r.artifacts.csv
       /\ r.result = "error" => r.artifacts = NoArtifacts

\* C22: two distinct runs never write their artifacts to the same path, also
\* when they belong to the same account, have the same periods and run
\* concurrently or within the same second.
C22_NoNameCollision ==
    \A p, q \in Runs :
       (/\ p # q
        /\ run[p].artifacts.csv # NoFile
        /\ run[q].artifacts.csv # NoFile)
         => /\ run[p].paths.csv # run[q].paths.csv
            /\ run[p].paths.xlsx # run[q].paths.xlsx
            /\ run[p].paths.html # run[q].paths.html

\* C23: when the processing step of upload_and_process_file has raised, the
\* row of the file carries processed_flag = False and the error message and
\* the caller gets FileProcessingException; processed_flag = True is written
\* only after processing has returned a path.
C23_RecordReflectsOutcome ==
    \A p \in Runs :
       LET u == upload[p] IN
       /\ (u.pc = "Done" /\ u.processing = "raised")
            => /\ u.record.processed_flag = FALSE
               /\ u.record.error_message = u.error
               /\ u.raised = "FileProcessingException"
       /\ u.record.processed_flag = TRUE => u.processing = "returned"

\* C24: an admitted batch of N properties issues exactly 2*N imagery calls,
\* a before call and then an after call for each property, the after call
\* also when the before call failed; the calls issued never exceed the
\* capacity that was checked.
C24_TwoCallsPerProperty ==
    \A p \in Runs :
       LET r == run[p] IN
       Admitted(r)
         => /\ r.external_calls <= required_calls(r)
            /\ r.pc \in {"Processing", "Step5", "Incrementing", "Step6", "Step7"}
                 => /\ r.external_calls = 2 * (r.index - 1)
                    /\ r.index > 1 => r.met[1] # "none" /\ r.met[2] # "none"
            /\ Ended(r) => r.external_calls = 2 * Len(r.df)

C26_SignificanceLaw ==
    (op.name = "classify" /\ op.row.status = "Successful")
      => \A i \in {"ndvi", "ndbi", "ndwi"} :
            /\ op.result.difference[i] = round4(op.row.after[i] - op.row.before[i])
            /\ op.result.significance[i] \in {"Yes", "No"}
            /\ op.result.significance[i] = "Yes"
                 <=> abs(op.result.difference[i]) >= threshold[i]

C28_StylingAgrees ==
    op.name = "style"
      => \A k \in DOMAIN op.table :
            LET expected == IF op.table[k] = "Successful" THEN "status cell green"
                            ELSE "row red"
            IN  /\ op.excel[k] = expected
                /\ op.html[k] = expected
                /\ op.script[k] = expected

\* C29: when the batches of an account run one at a time and nothing lowers
\* the limit, performed_api_calls never exceeds allowed_api_calls: a batch
\* is admitted only when allowed - performed >= 2*N and adds at most 2*N.
C29_SequentialQuotaBound ==
    /\ ledger.exists => ledger.performed_api_calls <= ledger.allowed_api_calls
    /\ LET r == run[1] IN
       Admitted(r)
         => /\ r.check.remaining >= 2 * Len(r.df)
            /\ r.committed <= 2 * Len(r.df)
            /\ ledger.performed_api_calls = performed0 + r.committed

C29_Witness ==
    /\ run[1].pc = "Completed"
    /\ Admitted(run[1])
    /\ run[1].committed = 2 * MaxProps
    /\ performed0 = MaxAllowed - 2 * MaxProps
    /\ ledger.performed_api_calls = ledger.allowed_api_calls

\* C30: when the account has no ledger row, or reading or summarising the
\* ledger raises, the quota check answers False with no usage info and the
\* run is aborted before any imagery request; the check admits a run only
\* with a ledger it could read and summarise.
C30_CheckFailsClosed ==
    \A p \in Runs :
       LET r == run[p] IN
       /\ (r.check.state # "none" /\ ~r.check.readable)
            => /\ r.check.state = "failed"
               /\ ~r.check.usage_info
               /\ r.pc = "Aborted"
               /\ r.result = "error"
               /\ r.external_calls = 0
               /\ r.committed = 0
       /\ Admitted(r) => r.check.readable /\ r.check.usage_info

C30_Witness ==
    /\ run[1].check.state = "failed"
    /\ ~run[1].check.readable
    /\ ledger.exists
    /\ ledger.allowed_api_calls = 0
    /\ now <= ledger.user_expiry_date
    /\ run[1].pc = "Aborted"
    /\ Len(run[1].df) = MaxProps

====
